---------------------------- MODULE Spec2Model ----------------------------
(***************************************************************************)
(* A model of the TorFlow slice selection engine (torflow-slice.c) and of  *)
(* the TorFlow bandwidth aggregator (torflow-aggregator.c).                *)
(*                                                                         *)
(* A GHashTable of the slice maps a key string to a probe count stored in  *)
(* the value pointer with GUINT_TO_POINTER.  A node of a table is modelled *)
(* as <<p, h>> |-> n where p names the key's allocation (the identity that *)
(* torflowslice_addRelay g_strdup'ed), h is the content that was hashed    *)
(* when the node was inserted ("orig": the identity, "junk": whatever the  *)
(* freed storage held) and n is the count.  g_hash_table_lookup returns    *)
(* the value pointer, so a stored count of 0 and a missing key both read   *)
(* as NULL.                                                                *)
(***************************************************************************)
EXTENDS Naturals, Integers, FiniteSets, Sequences, TLC

\* ------------------------------------------------------------------ bounds
MaxRelays == 3            \* identities the callers may add to the slice
MaxProbesPerRelay == 2    \* numProbesPerRelay is drawn from 1..MaxProbesPerRelay
MaxCalls == 4             \* chooseRelayPair calls in one behaviour
MaxPublishes == 2         \* reportMeasurements calls in one behaviour

\* ------------------------------------------------------------- identities
\* The first two identities differ only in case: g_ascii_strcasecmp (used by
\* torflowslice_contains) folds them, g_str_equal (the tables) does not.
IdentityPool == <<"ab", "AB", "cd", "ef", "gh", "ij">>
RelayIDs == {IdentityPool[i] : i \in 1..MaxRelays}
NULL == "NULL"

\* g_ascii_tolower applied to a whole identity
AsciiLower(s) == IF s = "AB" THEN "ab" ELSE s

\* g_ascii_strcasecmp(a, b) == 0
g_ascii_strcasecmp_eq(a, b) == AsciiLower(a) = AsciiLower(b)

\* what the storage of a key string holds: the identity copied into it, or
\* whatever a freed block holds
Contents == {"orig", "junk"}

VARIABLES
    numProbesPerRelay,      \* slice->numProbesPerRelay
    totalProbesRemaining,   \* slice->totalProbesRemaining
    relayIDSearch,          \* slice->relayIDSearch (NULL or an identity)
    relayIDFound,           \* slice->relayIDFound
    entries,                \* slice->entries : node -> count
    exits,                  \* slice->exits
    auths,                  \* slice->auths
    freed,                  \* key allocations that g_free has released
    aborted,                \* the process was killed (double free detected)
    entryRelayIdentity,     \* caller's out-parameter *entryRelayIdentity
    exitRelayIdentity,      \* caller's out-parameter *exitRelayIdentity
    result,                 \* what the last call returned
    lastOp,                 \* the last operation called
    errorLogged,            \* the last call logged with error()
    targetID,               \* the target the last chooseRelayPair picked
    authID,                 \* the authority the last chooseRelayPair picked
    role,                   \* partition addRelay chose per identity
    nCalls,                 \* chooseRelayPair calls so far
    nChosen,                \* successful chooseRelayPair calls so far
    selected,               \* times each identity was returned as the target
    queried,                \* the argument of the last contains call
    addedAfterChoose        \* an addRelay followed a chooseRelayPair call

sliceVars == <<numProbesPerRelay, totalProbesRemaining, relayIDSearch,
               relayIDFound, entries, exits, auths, freed, aborted,
               entryRelayIdentity, exitRelayIdentity, result, lastOp,
               errorLogged, targetID, authID, role, nCalls, nChosen,
               selected, queried, addedAfterChoose>>

VARIABLES
    gotInitial,             \* tfa->gotInitial
    version,                \* tfa->version
    relayStats,             \* tfa->relayStats : node -> TorFlowRelayStats
    nodeCap,                \* tfa->nodeCap as <<numerator, denominator>>
    pc,                     \* position inside _torflowaggregator_printToFile
    newFilename,            \* the version suffix of newFilename
    totalBW,                \* printToFile's local totalBW
    files,                  \* versioned files on disk: suffix -> state
    link,                   \* what the name tfa->filename resolves to
    warnings,               \* warnings the current publish has logged
    capped,                 \* nodes the current publish logged as capped
    written,                \* lines of the file being written: node -> bw
    nPublishes,             \* reportMeasurements calls so far
    everLinked,             \* a publish has created the published name
    aggOp,                  \* the last aggregator operation called
    killed                  \* the process died inside printToFile

aggVars == <<gotInitial, version, relayStats, nodeCap, pc, newFilename, totalBW,
             files, link, warnings, capped, written, nPublishes, everLinked,
             aggOp, killed>>

VARIABLES
    call,                   \* the arguments of the last aggregator call
    measuredIDs             \* identities reportMeasurements has upserted

obsVars == <<call, measuredIDs>>

vars == <<sliceVars, aggVars, obsVars>>

\* ------------------------------------------------------- GHashTable helpers
EmptyTable == [k \in {} |-> 0]

\* g_hash_table_replace / g_hash_table_insert of a key that hashes to node k
TableReplace(t, k, v) == [x \in (DOMAIN t) \cup {k} |-> IF x = k THEN v ELSE t[x]]

\* g_hash_table_steal
TableSteal(t, k) == [x \in (DOMAIN t) \ {k} |-> t[x]]

\* GPOINTER_TO_UINT(g_hash_table_lookup(t, k)): NULL (0) when k is missing
TableLookup(t, k) == IF k \in DOMAIN t THEN t[k] ELSE 0

\* g_hash_table_size
TableSize(t) == Cardinality(DOMAIN t)

Min(S) == CHOOSE m \in S : \A x \in S : m <= x


\* key allocations a table references
KeyPointers(t) == {k[1] : k \in DOMAIN t}

\* the counts a table stores under key allocation p
CountsOf(t, p) == {t[k] : k \in {x \in DOMAIN t : x[1] = p}}

\* ------------------------------------------------------------ slice helpers
\* what one relay adds to slice->totalProbesRemaining
_torflowslice_countProbesRemaining(numProbes) ==
    IF numProbes >= numProbesPerRelay THEN 0 ELSE numProbesPerRelay - numProbes

RECURSIVE ForeachCountProbesRemaining(_, _)
\* g_hash_table_foreach(t, _torflowslice_countProbesRemaining, slice) over nodes S
ForeachCountProbesRemaining(t, S) ==
    IF S = {} THEN 0
    ELSE LET k == CHOOSE x \in S : TRUE
         IN _torflowslice_countProbesRemaining(t[k])
              + ForeachCountProbesRemaining(t, S \ {k})

\* the value torflowslice_getNumProbesRemaining computes and returns
NumProbesRemaining ==
    ForeachCountProbesRemaining(entries, DOMAIN entries)
      + ForeachCountProbesRemaining(exits, DOMAIN exits)

\* torflowslice_getLength
torflowslice_getLength == TableSize(exits) + TableSize(entries)

\* The merged "targets" tables _torflowslice_mergeTables can build: one node
\* per key allocation.  entries is copied first and exits second, so a key
\* that both hold ends with the exits value; of two nodes of one table that
\* share a key allocation the one iterated last wins, in either order.
_torflowslice_mergeTables ==
    LET ptrs == KeyPointers(entries) \cup KeyPointers(exits)
        counts == {entries[k] : k \in DOMAIN entries} \cup {exits[k] : k \in DOMAIN exits}
    IN {f \in [ptrs -> counts] :
          \A p \in ptrs :
             f[p] \in (IF p \in KeyPointers(exits) THEN CountsOf(exits, p)
                                                   ELSE CountsOf(entries, p))}

\* minProbes of a table given as pointer -> count; G_MAXUINT never is a count
_torflowslice_computeMinProbes(f) == Min({f[p] : p \in DOMAIN f})

\* the keys whose count is the minimum of the table
_torflowslice_getCandidates(f) ==
    IF DOMAIN f = {} THEN {}
    ELSE {p \in DOMAIN f : f[p] = _torflowslice_computeMinProbes(f)}

\* _torflowslice_randomIndex without the adjustment of the outlier
\* randomIndex == numElements down to numElements - 1
Mutant_randomIndex_NoClamp(numElements) ==
    IF numElements <= 0 THEN {0} ELSE 0..numElements

\* the indices rand() can make _torflowslice_randomIndex return
_torflowslice_randomIndex(numElements) ==
    IF numElements <= 0 THEN {0} ELSE 0..(numElements - 1)

\* a GQueue holding the set S in some iteration order
QueueOf(S) ==
    CHOOSE q \in [1..Cardinality(S) -> S] : {q[i] : i \in 1..Cardinality(S)} = S

\* g_queue_peek_nth: NULL past the end
g_queue_peek_nth(q, n) == IF (n + 1) \in DOMAIN q THEN q[n + 1] ELSE NULL

\* the auths table as pointer -> count (its keys are never freed)
AuthCounts == [p \in KeyPointers(auths) |-> auths[<<p, "orig">>]]

\* what a read of key allocation p can yield
ReadKey(p) == IF p \in freed THEN Contents ELSE {"orig"}

\* ------------------------------------------------------------------- slice
\* torflowslice_new: the tables are empty, the search cache is unset
SliceInit ==
    /\ numProbesPerRelay \in 1..MaxProbesPerRelay
    /\ totalProbesRemaining = 0
    /\ relayIDSearch = NULL
    /\ relayIDFound = FALSE
    /\ entries = EmptyTable
    /\ exits = EmptyTable
    /\ auths = EmptyTable
    /\ freed = {}
    /\ aborted = FALSE
    /\ entryRelayIdentity = NULL
    /\ exitRelayIdentity = NULL
    /\ result = FALSE
    /\ lastOp = "new"
    /\ errorLogged = FALSE
    /\ targetID = NULL
    /\ authID = NULL
    /\ role = [id \in RelayIDs |-> "none"]
    /\ nCalls = 0
    /\ nChosen = 0
    /\ selected = [id \in RelayIDs |-> 0]
    /\ queried = NULL
    /\ addedAfterChoose = FALSE

\* the partition torflowslice_addRelay stores the relay in
PartitionFor(isAuth, isExit, onlyMeasureExits) ==
    IF isAuth THEN "auths"
    ELSE IF isExit THEN "exits"
    ELSE IF ~onlyMeasureExits THEN "entries"
    ELSE "dropped"

\* torflowslice_addRelay(slice, relay, onlyMeasureExits) for a relay with the
\* given identity and flags; the callers add an identity at most once.  The
\* key is a fresh g_strdup copy, stored with a count of 0.
torflowslice_addRelay(id, isAuth, isExit, onlyMeasureExits) ==
    LET part == PartitionFor(isAuth, isExit, onlyMeasureExits)
        k == <<id, "orig">>
    IN /\ ~aborted
       /\ role[id] = "none"
       /\ auths' = IF part = "auths" THEN TableReplace(auths, k, 0) ELSE auths
       /\ exits' = IF part = "exits" THEN TableReplace(exits, k, 0) ELSE exits
       /\ entries' = IF part = "entries" THEN TableReplace(entries, k, 0) ELSE entries
       /\ role' = [role EXCEPT ![id] = part]
       /\ addedAfterChoose' = (addedAfterChoose \/ nCalls > 0)
       /\ lastOp' = "addRelay"
       /\ UNCHANGED <<numProbesPerRelay, totalProbesRemaining, relayIDSearch,
                      relayIDFound, freed, aborted, entryRelayIdentity,
                      exitRelayIdentity, result, errorLogged, targetID, authID,
                      nCalls, nChosen, selected, queried>>

\* torflowslice_getNumProbesRemaining (also reached through torflowslice_logStatus)
torflowslice_getNumProbesRemaining ==
    /\ ~aborted
    /\ totalProbesRemaining' = NumProbesRemaining
    /\ lastOp' = "getNumProbesRemaining"
    /\ UNCHANGED <<result, numProbesPerRelay, relayIDSearch, relayIDFound, entries, exits,
                   auths, freed, aborted, entryRelayIdentity, exitRelayIdentity,
                   errorLogged, targetID, authID, role, nCalls, nChosen,
                   selected, queried, addedAfterChoose>>

\* measureEntry = entryProbeCount != NULL: a stored count of 0 is the NULL pointer
MeasureEntry(entryProbeCount) == entryProbeCount # 0

\* chooseRelayPair returning FALSE without the error() of line 231
Mutant_ChooseReturnFalse_Silent(remaining, logged) ==
    /\ totalProbesRemaining' = remaining
    /\ result' = FALSE
    /\ errorLogged' = FALSE
    /\ UNCHANGED <<numProbesPerRelay, relayIDSearch, relayIDFound, entries, exits,
                   auths, freed, aborted, entryRelayIdentity, exitRelayIdentity,
                   targetID, authID, role, nChosen, selected, queried,
                   addedAfterChoose>>

\* chooseRelayPair returns FALSE: nothing but the scratch total is written
ChooseReturnFalse(remaining, logged) ==
    /\ totalProbesRemaining' = remaining
    /\ result' = FALSE
    /\ errorLogged' = logged
    /\ UNCHANGED <<numProbesPerRelay, relayIDSearch, relayIDFound, entries, exits,
                   auths, freed, aborted, entryRelayIdentity, exitRelayIdentity,
                   targetID, authID, role, nChosen, selected, queried,
                   addedAfterChoose>>

\* glibc detects the second g_free of a key and kills the process
ChooseAbort(remaining) ==
    /\ totalProbesRemaining' = remaining
    /\ aborted' = TRUE
    /\ UNCHANGED <<numProbesPerRelay, relayIDSearch, relayIDFound, entries, exits,
                   auths, freed, entryRelayIdentity, exitRelayIdentity, result,
                   errorLogged, targetID, authID, role, nChosen, selected,
                   queried, addedAfterChoose>>

\* lines 239-307: the count update, g_hash_table_destroy(targets) and the
\* return values, for target key t read as content h and authority key a
ChooseUpdate(remaining, targets, t, a, h) ==
    LET k == <<t, h>>
        entryProbeCount == TableLookup(entries, k)
        exitProbeCount == TableLookup(exits, k)
        measureEntry == MeasureEntry(entryProbeCount)
        newTargetCount == (IF measureEntry THEN entryProbeCount ELSE exitProbeCount) + 1
    IN /\ totalProbesRemaining' = remaining
       /\ entries' = IF measureEntry
                     THEN TableReplace(TableSteal(entries, k), k, newTargetCount)
                     ELSE entries
       /\ exits' = IF measureEntry
                   THEN exits
                   ELSE TableReplace(TableSteal(exits, k), k, newTargetCount)
       /\ freed' = freed \cup DOMAIN targets
       /\ entryRelayIdentity' = IF measureEntry THEN t ELSE a
       /\ exitRelayIdentity' = IF measureEntry THEN a ELSE t
       /\ result' = TRUE
       /\ errorLogged' = FALSE
       /\ targetID' = t
       /\ authID' = a
       /\ nChosen' = nChosen + 1
       /\ selected' = [selected EXCEPT ![t] = @ + 1]
       /\ UNCHANGED <<numProbesPerRelay, relayIDSearch, relayIDFound, auths,
                      aborted, role, queried, addedAfterChoose>>

\* torflowslice_chooseRelayPair(slice, &entryRelayIdentity, &exitRelayIdentity)
torflowslice_chooseRelayPair ==
    /\ ~aborted
    /\ nCalls < MaxCalls
    /\ nCalls' = nCalls + 1
    /\ lastOp' = "chooseRelayPair"
    /\ LET remaining == NumProbesRemaining
       IN IF remaining <= 0
          THEN ChooseReturnFalse(remaining, FALSE)
          ELSE \E targets \in _torflowslice_mergeTables :
               LET candidateTargets == QueueOf(_torflowslice_getCandidates(targets))
                   candidateAuths == QueueOf(_torflowslice_getCandidates(AuthCounts))
               IN \E targetPosition \in
                        _torflowslice_randomIndex(Cardinality(DOMAIN candidateTargets)),
                     authPosition \in
                        _torflowslice_randomIndex(Cardinality(DOMAIN candidateAuths)) :
                  LET t == g_queue_peek_nth(candidateTargets, targetPosition)
                      a == g_queue_peek_nth(candidateAuths, authPosition)
                  IN IF t = NULL \/ a = NULL
                     THEN ChooseReturnFalse(remaining, TRUE)
                     ELSE \/ \E h \in ReadKey(t) :
                               ChooseUpdate(remaining, targets, t, a, h)
                          \/ /\ (DOMAIN targets) \cap freed # {}
                             /\ ChooseAbort(remaining)

\* _torflowslice_FindRelayID over one table: some key reads as the searched
\* identity up to case; view gives what each freed key reads as
FindRelayID(t, search, view) ==
    \E k \in DOMAIN t : view[k[1]] = "orig" /\ g_ascii_strcasecmp_eq(k[1], search)

\* torflowslice_contains(slice, relayID)
torflowslice_contains(relayID) ==
    /\ ~aborted
    /\ lastOp' = "contains"
    /\ queried' = relayID
    /\ IF relayID = NULL
       THEN /\ result' = FALSE
            /\ UNCHANGED <<relayIDSearch, relayIDFound>>
       ELSE IF relayIDSearch # NULL /\ g_ascii_strcasecmp_eq(relayID, relayIDSearch)
       THEN /\ result' = relayIDFound
            /\ UNCHANGED <<relayIDSearch, relayIDFound>>
       ELSE \E view \in [RelayIDs -> Contents] :
            /\ \A p \in RelayIDs :
                  view[p] \in (IF p \in KeyPointers(entries) \cup KeyPointers(exits)
                               THEN ReadKey(p) ELSE {"orig"})
            /\ relayIDSearch' = relayID
            /\ relayIDFound' = (FindRelayID(entries, relayID, view)
                                  \/ FindRelayID(exits, relayID, view))
            /\ result' = relayIDFound'
    /\ UNCHANGED <<numProbesPerRelay, totalProbesRemaining, entries, exits, auths,
                   freed, aborted, entryRelayIdentity, exitRelayIdentity,
                   errorLogged, targetID, authID, role, nCalls, nChosen,
                   selected, addedAfterChoose>>


\* -------------------------------------------------------------- aggregator
\* The relays the workers report (the GSList the callers pass): identity,
\* nickname, descriptorBandwidth and advertisedBandwidth are fixed per relay;
\* the measured fields vary per report.
RelayRoster ==
    <<[identity |-> "ab", nickname |-> "relay1",
       descriptorBandwidth |-> 100, advertisedBandwidth |-> 100],
      [identity |-> "cd", nickname |-> "relay2",
       descriptorBandwidth |-> 300, advertisedBandwidth |-> 200]>>

\* <<mean, filtered>> pairs torflowutil_meanBandwidth and
\* torflowutil_filteredBandwidth return for a measured relay
BandwidthSamples == {<<100, 100>>, <<100, 300>>, <<300, 300>>}

\* the nodeCap ratios torflowaggregator_new is given, as <<num, den>>
NodeCaps == {<<1, 2>>, <<1, 4>>}

\* what the published name resolves to: nothing (no such name), a file left
\* by an earlier run, or the versioned file <basename>.<v>
NoName == <<>>
StaleFile == <<"stale">>
VersionedFile(v) == <<"version", v>>

\* torflowaggregator_new
AggInit ==
    /\ gotInitial = FALSE
    /\ version = 0
    /\ relayStats = [k \in {} |-> 0]
    /\ nodeCap \in NodeCaps
    /\ pc = "idle"
    /\ newFilename = NoName
    /\ totalBW = 0
    /\ files = [k \in {} |-> 0]
    /\ link \in {NoName, StaleFile}
    /\ warnings = {}
    /\ capped = {}
    /\ written = [k \in {} |-> 0]
    /\ nPublishes = 0
    /\ everLinked = FALSE
    /\ aggOp = "new"
    /\ killed = FALSE

\* a TorFlowRelayStats built from a relay (g_new0 zeroes newBandwidth)
NewStats(relay, mean, filtered) ==
    [identity |-> relay.identity,
     nickname |-> relay.nickname,
     descriptorBandwidth |-> relay.descriptorBandwidth,
     advertisedBandwidth |-> relay.advertisedBandwidth,
     meanBandwidth |-> mean,
     filteredBandwidth |-> filtered,
     newBandwidth |-> 0,
     keyLive |-> TRUE]

\* nodes of the stats table whose key is (or was) the string id
NodesOf(t, id) == {k \in DOMAIN t : k[1] = id}

\* g_hash_table_insert(tfa->relayStats, tfrs->identity->str, tfrs): the tables
\* this can leave.  The key is a string owned by the value.  A new key makes a
\* new node.  An existing key keeps the node's old key and destroys the old
\* value, which frees that old key: from then on the node's key is freed
\* storage (keyLive FALSE), and a later insert that compares against it either
\* finds it equal (the value is replaced) or not (a second node is made).
StatsInsert(t, tfrs) ==
    LET id == tfrs.identity
        nodes == NodesOf(t, id)
        replaced == {[x \in DOMAIN t |-> IF x = k THEN [tfrs EXCEPT !.keyLive = FALSE]
                                                 ELSE t[x]] : k \in nodes}
        fresh == <<id, Cardinality(nodes) + 1>>
        inserted == [x \in (DOMAIN t) \cup {fresh} |-> IF x = fresh THEN tfrs ELSE t[x]]
    IN IF \E k \in nodes : t[k].keyLive
       THEN replaced
       ELSE replaced \cup {inserted}

RECURSIVE StatsInsertAll(_, _)
\* the tables a loop of inserts over the sequence of stats can leave
StatsInsertAll(t, seq) ==
    IF seq = <<>> THEN {t}
    ELSE UNION {StatsInsertAll(u, Tail(seq)) : u \in StatsInsert(t, Head(seq))}

RECURSIVE SumOver(_, _)
\* the sum of g[k] over the nodes S, as the iteration loops add it up
SumOver(g, S) ==
    IF S = {} THEN 0
    ELSE LET k == CHOOSE x \in S : TRUE
         IN g[k] + SumOver(g, S \ {k})

\* the ratio applied to descriptorBandwidth in place of advertisedBandwidth
Mutant_NewBandwidth_Descriptor(r, totalMeanBW, totalFiltBW, size) ==
    IF r.meanBandwidth * totalFiltBW >= r.filteredBandwidth * totalMeanBW
    THEN (r.descriptorBandwidth * r.meanBandwidth * size) \div totalMeanBW
    ELSE (r.descriptorBandwidth * r.filteredBandwidth * size) \div totalFiltBW

\* (gint)(advertisedBandwidth * fmax(mean/avgMeanBW, filtered/avgFiltBW)) with
\* avgMeanBW = totalMeanBW/size and avgFiltBW = totalFiltBW/size, for positive
\* totals: the larger ratio is chosen by cross-multiplying and the cast
\* truncates the quotient.
NewBandwidth(r, totalMeanBW, totalFiltBW, size) ==
    IF r.meanBandwidth * totalFiltBW >= r.filteredBandwidth * totalMeanBW
    THEN (r.advertisedBandwidth * r.meanBandwidth * size) \div totalMeanBW
    ELSE (r.advertisedBandwidth * r.filteredBandwidth * size) \div totalFiltBW

\* lines 38-65: the table with every newBandwidth recomputed
ComputeNewBandwidths(t) ==
    LET totalMeanBW == SumOver([k \in DOMAIN t |-> t[k].meanBandwidth], DOMAIN t)
        totalFiltBW == SumOver([k \in DOMAIN t |-> t[k].filteredBandwidth], DOMAIN t)
        size == Cardinality(DOMAIN t)
    IN [k \in DOMAIN t |->
          [t[k] EXCEPT !.newBandwidth = NewBandwidth(t[k], totalMeanBW, totalFiltBW, size)]]

\* (gint)(totalBW * tfa->nodeCap)
CapOf(total, cap) == (total * cap[1]) \div cap[2]

\* the version left as it was (tfa->version in place of tfa->version++)
Mutant_VersionAfterPublish_Kept(v) == v

\* tfa->version++ (line 69)
VersionAfterPublish(v) == v + 1

\* lines 38-73 of _torflowaggregator_printToFile: the new bandwidths, the
\* version increment and fopen(newFilename, "w"); fopen returning NULL makes
\* the fprintf of line 74 dereference NULL
PrintToFileOpen(t) ==
    LET u == ComputeNewBandwidths(t)
    IN /\ relayStats' = u
       /\ totalBW' = SumOver([k \in DOMAIN u |-> u[k].newBandwidth], DOMAIN u)
       /\ newFilename' = VersionedFile(version)
       /\ version' = VersionAfterPublish(version)
       /\ warnings' = {}
       /\ capped' = {}
       /\ written' = [k \in {} |-> 0]
       /\ \/ /\ files' = [x \in (DOMAIN files) \cup {newFilename'} |->
                            IF x = newFilename' THEN "open" ELSE files[x]]
             /\ pc' = "write"
             /\ killed' = FALSE
          \/ /\ files' = files
             /\ pc' = "dead"
             /\ killed' = TRUE

\* torflowaggregator_reportInitial without the gotInitial test: every call seeds
Mutant_reportInitial_EveryCall(relays) ==
    /\ pc = "idle"
    /\ aggOp' = "reportInitial"
    /\ gotInitial' = TRUE
    /\ relayStats' \in StatsInsertAll(relayStats,
         [i \in DOMAIN relays |->
            NewStats(relays[i], relays[i].descriptorBandwidth,
                     relays[i].descriptorBandwidth)])
    /\ UNCHANGED <<version, nodeCap, pc, newFilename, totalBW, files, link,
                   warnings, capped, written, nPublishes, everLinked, killed>>

\* torflowaggregator_reportInitial(tfa, relays)
torflowaggregator_reportInitial(relays) ==
    /\ pc = "idle"
    /\ aggOp' = "reportInitial"
    /\ IF gotInitial
       THEN UNCHANGED <<gotInitial, relayStats>>
       ELSE /\ gotInitial' = TRUE
            /\ relayStats' \in StatsInsertAll(relayStats,
                 [i \in DOMAIN relays |->
                    NewStats(relays[i], relays[i].descriptorBandwidth,
                             relays[i].descriptorBandwidth)])
    /\ UNCHANGED <<version, nodeCap, pc, newFilename, totalBW, files, link,
                   warnings, capped, written, nPublishes, everLinked, killed>>

\* lines 136-152: the stats the loop builds, in list order.  g_slist_nth starts
\* at position sliceSize * currSlice (NULL past the end), the loop visits at
\* most sliceSize nodes and skips a relay with too few measurements.
QualifyingStats(measuredRelays, sliceSize, currSlice) ==
    LET first == sliceSize * currSlice + 1
        window == {i \in DOMAIN measuredRelays :
                      i >= first /\ i < first + sliceSize}
        qualifying == {i \in window : measuredRelays[i].enough}
    IN [j \in 1..Cardinality(qualifying) |->
          LET i == CHOOSE x \in qualifying :
                     Cardinality({y \in qualifying : y < x}) = j - 1
          IN NewStats(measuredRelays[i].relay, measuredRelays[i].mean,
                      measuredRelays[i].filtered)]

\* torflowaggregator_reportMeasurements(tfa, measuredRelays, sliceSize, currSlice)
\* up to the fopen of the publish it ends with.  A measured relay is a relay
\* with enough == (measureCount >= MEASUREMENTS_PER_SLICE) and the mean and
\* filtered bandwidths the helpers compute from its samples.
torflowaggregator_reportMeasurements(measuredRelays, sliceSize, currSlice) ==
    /\ pc = "idle"
    /\ nPublishes < MaxPublishes
    /\ nPublishes' = nPublishes + 1
    /\ aggOp' = "reportMeasurements"
    /\ \E t \in StatsInsertAll(relayStats,
                                QualifyingStats(measuredRelays, sliceSize, currSlice)) :
          PrintToFileOpen(t)
    /\ UNCHANGED <<gotInitial, nodeCap, link, everLinked>>

\* lines 74-94: the capping loop writes one line per node, then fclose
PrintToFileWrite ==
    /\ pc = "write"
    /\ LET cap == CapOf(totalBW, nodeCap)
           over == {k \in DOMAIN relayStats : relayStats[k].newBandwidth > cap}
       IN /\ capped' = over
          /\ relayStats' = [k \in DOMAIN relayStats |->
                              IF k \in over
                              THEN [relayStats[k] EXCEPT !.newBandwidth = cap]
                              ELSE relayStats[k]]
          /\ written' = [k \in DOMAIN relayStats |-> relayStats'[k].newBandwidth]
    /\ files' = [files EXCEPT ![newFilename] = "complete"]
    /\ pc' = "unlink"
    /\ UNCHANGED <<gotInitial, version, nodeCap, newFilename, totalBW, link,
                   warnings, nPublishes, everLinked, aggOp, killed>>

\* lines 95-99: unlink(tfa->filename) returns 0 when it removed the name and
\* -1 when it did not (no such name, or any other error); the warning is
\* logged when !unlink(...) holds
PrintToFileUnlink ==
    /\ pc = "unlink"
    /\ \E rc \in (IF link = NoName THEN {-1} ELSE {0, -1}) :
          /\ link' = IF rc = 0 THEN NoName ELSE link
          /\ warnings' = IF rc = 0 THEN warnings \cup {"remove"} ELSE warnings
    /\ pc' = "symlink"
    /\ UNCHANGED <<gotInitial, version, relayStats, nodeCap, newFilename, totalBW,
                   files, capped, written, nPublishes, everLinked, aggOp, killed>>

\* lines 100-105: symlink(newFilename, tfa->filename) returns 0 when it made
\* the name and -1 when it did not (the name exists, or any other error); the
\* warning is logged when !symlink(...) holds
PrintToFileSymlink ==
    /\ pc = "symlink"
    /\ \E rc \in (IF link = NoName THEN {0, -1} ELSE {-1}) :
          /\ link' = IF rc = 0 THEN newFilename ELSE link
          /\ everLinked' = (everLinked \/ rc = 0)
          /\ warnings' = IF rc = 0 THEN warnings \cup {"create"} ELSE warnings
    /\ pc' = "idle"
    /\ UNCHANGED <<gotInitial, version, relayStats, nodeCap, newFilename, totalBW,
                   files, capped, written, nPublishes, aggOp, killed>>

\* the relay lists the callers pass to reportInitial
InitialLists ==
    {<<>>, <<RelayRoster[1]>>, <<RelayRoster[1], RelayRoster[2]>>}

\* what a worker holds for one relay: enough == (measureCount >=
\* MEASUREMENTS_PER_SLICE) and the statistics of its samples (a relay with too
\* few measurements has no statistics worth varying)
MeasurementOptions ==
    {[enough |-> FALSE, mean |-> 100, filtered |-> 100]}
      \cup {[enough |-> TRUE, mean |-> b[1], filtered |-> b[2]] : b \in BandwidthSamples}

\* the measured-relay lists the callers pass to reportMeasurements
MeasuredLists ==
    {[i \in 1..Len(RelayRoster) |->
        [relay |-> RelayRoster[i], enough |-> o[i].enough,
         mean |-> o[i].mean, filtered |-> o[i].filtered]] :
       o \in [1..Len(RelayRoster) -> MeasurementOptions]}

NextAgg ==
    \/ /\ \E relays \in InitialLists : torflowaggregator_reportInitial(relays)
       /\ UNCHANGED <<sliceVars, obsVars>>
    \/ /\ \E measuredRelays \in MeasuredLists, sliceSize \in 1..2, currSlice \in 0..1 :
             torflowaggregator_reportMeasurements(measuredRelays, sliceSize, currSlice)
       /\ UNCHANGED <<sliceVars, obsVars>>
    \/ /\ PrintToFileWrite
       /\ UNCHANGED <<sliceVars, obsVars>>
    \/ /\ PrintToFileUnlink
       /\ UNCHANGED <<sliceVars, obsVars>>
    \/ /\ PrintToFileSymlink
       /\ UNCHANGED <<sliceVars, obsVars>>

\* no aggregator call has been made
NoCall == [op |-> "none", relays |-> <<>>, sliceSize |-> 0, currSlice |-> 0]

ObsInit == call = NoCall /\ measuredIDs = {}

\* a slice beside an idle aggregator
Init == SliceInit /\ AggInit /\ nodeCap = <<1, 2>> /\ link = NoName /\ ObsInit

\* an aggregator beside an empty slice
InitAgg == SliceInit /\ numProbesPerRelay = 1 /\ AggInit /\ ObsInit

Next ==
    \/ /\ \E id \in RelayIDs, isAuth \in BOOLEAN, isExit \in BOOLEAN,
             onlyMeasureExits \in BOOLEAN :
             torflowslice_addRelay(id, isAuth, isExit, onlyMeasureExits)
       /\ UNCHANGED <<aggVars, obsVars>>
    \/ /\ torflowslice_getNumProbesRemaining
       /\ UNCHANGED <<aggVars, obsVars>>
    \/ /\ torflowslice_chooseRelayPair
       /\ UNCHANGED <<aggVars, obsVars>>

\* the slice's population and selection operations
Spec == Init /\ [][Next]_vars

\* the aggregator's reports and the steps of its publish
SpecAgg == InitAgg /\ [][NextAgg]_vars

NextContains ==
    \/ /\ \E id \in RelayIDs, isAuth \in BOOLEAN, isExit \in BOOLEAN,
             onlyMeasureExits \in BOOLEAN :
             torflowslice_addRelay(id, isAuth, isExit, onlyMeasureExits)
       /\ UNCHANGED <<aggVars, obsVars>>
    \/ /\ torflowslice_chooseRelayPair
       /\ UNCHANGED <<aggVars, obsVars>>
    \/ /\ \E relayID \in RelayIDs \cup {NULL} : torflowslice_contains(relayID)
       /\ UNCHANGED <<aggVars, obsVars>>

\* the slice's membership query beside population and selection
SpecContains == Init /\ [][NextContains]_vars

\* the aggregator's calls with their arguments on record
NextReports ==
    \/ /\ \E relays \in InitialLists :
             /\ torflowaggregator_reportInitial(relays)
             /\ call' = [op |-> "reportInitial", relays |-> relays,
                         sliceSize |-> 0, currSlice |-> 0]
       /\ UNCHANGED <<sliceVars, measuredIDs>>
    \/ /\ \E measuredRelays \in MeasuredLists, sliceSize \in 1..2, currSlice \in 0..1 :
             /\ torflowaggregator_reportMeasurements(measuredRelays, sliceSize, currSlice)
             /\ call' = [op |-> "reportMeasurements", relays |-> measuredRelays,
                         sliceSize |-> sliceSize, currSlice |-> currSlice]
             /\ measuredIDs' = measuredIDs \cup
                   {r.identity : r \in
                      {QualifyingStats(measuredRelays, sliceSize, currSlice)[j] :
                         j \in DOMAIN QualifyingStats(measuredRelays, sliceSize, currSlice)}}
       /\ UNCHANGED sliceVars
    \/ /\ PrintToFileWrite
       /\ UNCHANGED <<sliceVars, obsVars>>
    \/ /\ PrintToFileUnlink
       /\ UNCHANGED <<sliceVars, obsVars>>
    \/ /\ PrintToFileSymlink
       /\ UNCHANGED <<sliceVars, obsVars>>

InitReports == InitAgg /\ nodeCap = <<1, 2>> /\ link = NoName

\* the aggregator's reports, each call's arguments recorded
SpecReports == InitReports /\ [][NextReports]_vars

\* the advertised bandwidths the three seeded relays may claim
SeedAdvertised == {100, 101, 200, 300}

\* three relays with descriptor bandwidths 100, 200 and 300 and the advertised
\* bandwidths adv, as a worker passes them to reportInitial
SeedRoster(adv) ==
    <<[identity |-> "ab", nickname |-> "relay1",
       descriptorBandwidth |-> 100, advertisedBandwidth |-> adv[1]],
      [identity |-> "cd", nickname |-> "relay2",
       descriptorBandwidth |-> 200, advertisedBandwidth |-> adv[2]],
      [identity |-> "ef", nickname |-> "relay3",
       descriptorBandwidth |-> 300, advertisedBandwidth |-> adv[3]]>>

SeedLists == {SeedRoster(adv) : adv \in [1..3 -> SeedAdvertised]}

\* reportInitial with three relays and publishes without any measurement
\* (reportMeasurements on an empty list)
NextSeed ==
    \/ /\ \E relays \in SeedLists : torflowaggregator_reportInitial(relays)
       /\ UNCHANGED <<sliceVars, obsVars>>
    \/ /\ \E sliceSize \in 1..2, currSlice \in 0..1 :
             torflowaggregator_reportMeasurements(<<>>, sliceSize, currSlice)
       /\ UNCHANGED <<sliceVars, obsVars>>
    \/ /\ PrintToFileWrite
       /\ UNCHANGED <<sliceVars, obsVars>>
    \/ /\ PrintToFileUnlink
       /\ UNCHANGED <<sliceVars, obsVars>>
    \/ /\ PrintToFileSymlink
       /\ UNCHANGED <<sliceVars, obsVars>>

\* seeding followed by publishes without measurements
SpecSeed == InitAgg /\ [][NextSeed]_vars

\* ------------------------------------------------------------ slice claims
\* identities addRelay stored as entry or exit relays
Targets == {id \in RelayIDs : role[id] \in {"entries", "exits"}}

\* every count the entries and exits tables store
StoredTargetCounts ==
    {entries[k] : k \in DOMAIN entries} \cup {exits[k] : k \in DOMAIN exits}

\* the table addRelay stored identity id in
OwnTable(id) == IF role[id] = "entries" THEN entries ELSE exits

\* C1: with every relay added before the first selection and at least one
\* authority, exactly (E+X)*T chooseRelayPair calls succeed, every later call
\* returns no pair, and after the (E+X)*T-th success getNumProbesRemaining is 0.
C1_SliceExhaustion ==
    (~addedAfterChoose /\ ~aborted /\ (\E id \in RelayIDs : role[id] = "auths"))
    => LET budget == Cardinality(Targets) * numProbesPerRelay
       IN /\ nChosen = (IF nCalls <= budget THEN nCalls ELSE budget)
          /\ (nChosen = budget => NumProbesRemaining = 0)

\* C2 as written: a chooseRelayPair call returns no pair if and only if
\* getNumProbesRemaining in the pre-call state is 0.
C2_NoPairIffExhausted ==
    [][(nCalls' = nCalls + 1 /\ ~aborted')
         => ((result' = FALSE) <=> (NumProbesRemaining = 0))]_vars

\* C2 amended: a chooseRelayPair call that returns, returns no pair if and
\* only if getNumProbesRemaining in the pre-call state is 0 or the authorities
\* partition is empty.
C2_NoPairIffExhaustedOrNoAuth ==
    [][(nCalls' = nCalls + 1 /\ ~aborted')
         => ((result' = FALSE)
               <=> (NumProbesRemaining = 0 \/ auths = EmptyTable))]_vars

\* C2 witness: a call found probes remaining, an empty authorities partition
\* and so no authority candidate; it logged the error and returned no pair.
C2_Witness ==
    /\ lastOp = "chooseRelayPair"
    /\ ~aborted
    /\ result = FALSE
    /\ errorLogged
    /\ totalProbesRemaining > 0
    /\ auths = EmptyTable

\* C3: a successful chooseRelayPair never increases getNumProbesRemaining, and
\* getNumProbesRemaining is 0 exactly when every entry and exit relay has been
\* selected at least numProbesPerRelay times.
C3_RemainingMonotone ==
    [][/\ (nChosen' = nChosen + 1) => (NumProbesRemaining' <= NumProbesRemaining)
       /\ (~aborted')
            => ((NumProbesRemaining' = 0)
                  <=> (\A id \in Targets' : selected'[id] >= numProbesPerRelay'))]_vars

\* C4: a successful chooseRelayPair adds one to the count stored for the
\* returned target in its own partition and changes no other stored count and
\* no partition's set of identities.
C4_OnlyTargetCountChanges ==
    [][(nChosen' = nChosen + 1)
         => LET k == <<targetID', "orig">>
            IN /\ auths' = auths
               /\ IF role[targetID'] = "entries"
                  THEN /\ k \in DOMAIN entries
                       /\ entries' = [entries EXCEPT ![k] = @ + 1]
                       /\ exits' = exits
                  ELSE /\ k \in DOMAIN exits
                       /\ exits' = [exits EXCEPT ![k] = @ + 1]
                       /\ entries' = entries]_vars

\* C5: a successful chooseRelayPair returns a target whose pre-call count is
\* the minimum pre-call count over entries and exits, and an authority whose
\* pre-call count is the minimum over the authorities.
C5_LeastMeasuredFirst ==
    [][(nChosen' = nChosen + 1)
         => /\ TableLookup(OwnTable(targetID'), <<targetID', "orig">>)
                 = Min(StoredTargetCounts)
            /\ TableLookup(auths, <<authID', "orig">>)
                 = Min({auths[k] : k \in DOMAIN auths})]_vars

\* C6: every identity is a key of at most one partition, the one addRelay
\* chose from its role.
C6_PartitionExclusivity ==
    \A id \in RelayIDs :
       /\ id \in KeyPointers(entries) => role[id] = "entries"
       /\ id \in KeyPointers(exits) => role[id] = "exits"
       /\ id \in KeyPointers(auths) => role[id] = "auths"

\* C7: a successful chooseRelayPair returns a target of the entries partition
\* in the entry position with the authority in the exit position, and a target
\* of the exits partition in the exit position with the authority in the
\* entry position.
C7_RoleLabelling ==
    (lastOp = "chooseRelayPair" /\ result = TRUE /\ ~aborted)
    => /\ role[targetID] = "entries"
            => (entryRelayIdentity = targetID /\ exitRelayIdentity = authID)
       /\ role[targetID] = "exits"
            => (exitRelayIdentity = targetID /\ entryRelayIdentity = authID)

\* C8: contains(r) returns true once r was added as an entry or an exit,
\* whatever preceded the addRelay, and false while r (in any letter case) was
\* never added.
C8_ContainsRoundTrip ==
    (lastOp = "contains" /\ queried # NULL)
    => /\ role[queried] \in {"entries", "exits"} => result = TRUE
       /\ (\A id \in RelayIDs : g_ascii_strcasecmp_eq(id, queried) => role[id] = "none")
            => result = FALSE

\* ------------------------------------------------------- aggregator claims
\* C9: the version starts at 0 and is the number of publishes so far (one per
\* reportMeasurements call, whatever unlink and symlink return, and none per
\* reportInitial call); the k-th publish writes <basename>.<k-1>, so every
\* versioned file on disk was written by exactly one publish.
C9_PublishVersioning ==
    /\ version = nPublishes
    /\ pc \in {"write", "unlink", "symlink"}
         => /\ newFilename = VersionedFile(nPublishes - 1)
            /\ newFilename \in DOMAIN files
    /\ \A f \in DOMAIN files : \E k \in 1..nPublishes : f = VersionedFile(k - 1)
    /\ Cardinality(DOMAIN files) <= nPublishes

\* C9 witness: after reportInitial, two publishes have run to completion, the
\* second with both unlink and symlink failing (the name still resolves to
\* version 0), and the version is 2.
C9_Witness ==
    /\ gotInitial
    /\ aggOp = "reportMeasurements"
    /\ pc = "idle"
    /\ nPublishes = 2
    /\ version = 2
    /\ link = VersionedFile(0)
    /\ VersionedFile(1) \in DOMAIN files
    /\ files[VersionedFile(1)] = "complete"

\* C10: once a publish has created the published name, the name exists and
\* resolves to a completely written versioned file in every state, the
\* intermediate states of later publishes included.
C10_AtomicPublication ==
    everLinked
    => /\ link # NoName
       /\ link \in DOMAIN files
       /\ files[link] = "complete"

\* unlink(tfa->filename) removed the published name in this step
UnlinkSucceeded == link # NoName /\ link' = NoName

\* symlink(newFilename, tfa->filename) created the published name in this step
SymlinkSucceeded == link = NoName /\ link' = newFilename

\* C11: in a publish the removal warning is logged exactly when removing the
\* old link fails, the creation warning exactly when creating the new link
\* fails, and after the one attempt at each the publish is complete.
C11_FailureReporting ==
    [][/\ pc = "unlink"
            => /\ ("remove" \in warnings') <=> ~UnlinkSucceeded
               /\ pc' = "symlink"
       /\ pc = "symlink"
            => /\ ("create" \in warnings') <=> ~SymlinkSucceeded
               /\ pc' = "idle"]_vars

\* the log events of the capping loop that name the relay with identity id
CappingEventsNaming(events, id) == {k \in events : k[1] = id}

\* C12: a publish computes cap = nodeCap * (sum of the uncapped newBandwidth
\* values), truncated; a relay above cap is written with bw = cap and logged
\* by exactly one capping event, a relay not above cap is written with its
\* uncapped value and logged by none; no written bw exceeds cap.
C12_Capping ==
    [][pc = "write"
         => LET uncapped == [k \in DOMAIN relayStats |-> relayStats[k].newBandwidth]
                totalBandwidth == SumOver(uncapped, DOMAIN relayStats)
                cap == (totalBandwidth * nodeCap[1]) \div nodeCap[2]
            IN /\ DOMAIN written' = DOMAIN relayStats
               /\ \A k \in DOMAIN relayStats :
                     /\ written'[k] = (IF uncapped[k] > cap THEN cap ELSE uncapped[k])
                     /\ written'[k] <= cap
               /\ \A id \in {k[1] : k \in DOMAIN relayStats} :
                     Cardinality(CappingEventsNaming(capped', id))
                       = (IF \E k \in NodesOf(relayStats, id) : uncapped[k] > cap
                          THEN 1 ELSE 0)]_vars

\* the capping of C12 stated for each entry of the stats table in place of
\* each relay
C12_CappingPerEntry ==
    [][pc = "write"
         => LET uncapped == [k \in DOMAIN relayStats |-> relayStats[k].newBandwidth]
                totalBandwidth == SumOver(uncapped, DOMAIN relayStats)
                cap == (totalBandwidth * nodeCap[1]) \div nodeCap[2]
            IN /\ DOMAIN written' = DOMAIN relayStats
               /\ \A k \in DOMAIN relayStats :
                     /\ written'[k] = (IF uncapped[k] > cap THEN cap ELSE uncapped[k])
                     /\ written'[k] <= cap
                     /\ (k \in capped') <=> (uncapped[k] > cap)]_vars

\* this step is a reportInitial call (its arguments are in call')
IsReportInitial == pc = "idle" /\ call'.op = "reportInitial"

\* the nodes of the stats table this step created or gave another value
ChangedNodes ==
    {k \in DOMAIN relayStats' : k \notin DOMAIN relayStats \/ relayStats'[k] # relayStats[k]}

\* C13: the first reportInitial call makes the aggregator active and inserts
\* one stats entry per supplied relay, with mean and filtered bandwidth equal
\* to the descriptor bandwidth; a later reportInitial call changes neither the
\* stats table nor the version nor the flag; the flag is never cleared.
C13_ReportInitialOnce ==
    [][/\ gotInitial => gotInitial'
       /\ IsReportInitial
            => IF gotInitial
               THEN relayStats' = relayStats /\ version' = version /\ gotInitial'
               ELSE LET relays == call'.relays
                        ids == {relays[i].identity : i \in DOMAIN relays}
                    IN /\ gotInitial'
                       /\ version' = version
                       /\ DOMAIN relayStats \subseteq DOMAIN relayStats'
                       /\ \A i \in DOMAIN relays :
                             \E k \in NodesOf(relayStats', relays[i].identity) :
                                /\ relayStats'[k].identity = relays[i].identity
                                /\ relayStats'[k].meanBandwidth = relays[i].descriptorBandwidth
                                /\ relayStats'[k].filteredBandwidth = relays[i].descriptorBandwidth
                       /\ \A k \in ChangedNodes :
                             /\ k[1] \in ids
                             /\ relayStats'[k].meanBandwidth = relayStats'[k].descriptorBandwidth
                             /\ relayStats'[k].filteredBandwidth = relayStats'[k].descriptorBandwidth
                       /\ \A id \in ids :
                             Cardinality(ChangedNodes \cap NodesOf(relayStats', id)) <= 1]_vars

\* C13 witness: the first reportInitial seeded both relays, a publish followed,
\* and a later reportInitial call with another list has returned: the entry of
\* the relay missing from that list still holds its seed values.
C13_Witness ==
    /\ call.op = "reportInitial"
    /\ call.relays = <<RelayRoster[1]>>
    /\ gotInitial
    /\ nPublishes >= 1
    /\ measuredIDs = {}
    /\ \E k \in NodesOf(relayStats, "cd") :
          /\ relayStats[k].meanBandwidth = 300
          /\ relayStats[k].filteredBandwidth = 300

\* a publish of the seeded table has computed the new bandwidths and the
\* capping loop has not run yet
SeededPublish == pc = "write" /\ gotInitial /\ Cardinality(DOMAIN relayStats) = 3

\* C14 as written (newBandwidth read as the integer the code stores): each
\* seeded relay gets advertisedBandwidth * (descriptorBandwidth / 200) and the
\* three uncapped values sum to the relays' original total bandwidth (their
\* descriptor total 600, or their advertised total).
C14_SeedAndPublish ==
    SeededPublish
    => /\ \A k \in DOMAIN relayStats :
             relayStats[k].newBandwidth
               = (relayStats[k].advertisedBandwidth * relayStats[k].descriptorBandwidth) \div 200
       /\ \/ totalBW = 600
          \/ totalBW = SumOver([k \in DOMAIN relayStats |-> relayStats[k].advertisedBandwidth],
                               DOMAIN relayStats)

\* C14 amended: each seeded relay gets advertisedBandwidth * descriptorBandwidth
\* / 200 truncated to an integer; the three uncapped values sum to the total
\* advertised bandwidth when the three advertised bandwidths are equal and even.
C14_SeedAndPublishAmended ==
    SeededPublish
    => /\ \A k \in DOMAIN relayStats :
             relayStats[k].newBandwidth
               = (relayStats[k].advertisedBandwidth * relayStats[k].descriptorBandwidth) \div 200
       /\ \A a \in SeedAdvertised :
             (a % 2 = 0 /\ \A k \in DOMAIN relayStats : relayStats[k].advertisedBandwidth = a)
             => totalBW = 3 * a

\* C14 witness: three relays seeded with descriptor bandwidths 100, 200, 300
\* and advertised bandwidth 200 each; the publish computed 100, 200 and 300,
\* which sum to 600.
C14_Witness ==
    /\ SeededPublish
    /\ aggOp = "reportMeasurements"
    /\ \A k \in DOMAIN relayStats : relayStats[k].advertisedBandwidth = 200
    /\ {relayStats[k].newBandwidth : k \in DOMAIN relayStats} = {100, 200, 300}
    /\ totalBW = 600

\* the count stored for identity id in the partition addRelay put it in
StoredCount(id) == TableLookup(OwnTable(id), <<id, "orig">>)

\* C15: with every relay added before the first selection, the numbers of
\* times any two entry or exit relays were returned as the target differ by
\* at most 1, and so do the probe counts stored for them.
C15_NoStarvation ==
    (~addedAfterChoose /\ ~aborted)
    => \A a \in Targets, b \in Targets :
          /\ selected[a] <= selected[b] + 1
          /\ StoredCount(a) <= StoredCount(b) + 1

\* C16: a chooseRelayPair call made with probes remaining and an empty
\* authorities partition logs an error, returns FALSE, writes neither output
\* identity and leaves every partition and every stored count as it was.
C16_EmptyCandidateFailure ==
    [][(nCalls' = nCalls + 1 /\ NumProbesRemaining > 0 /\ auths = EmptyTable)
         => /\ ~aborted'
            /\ errorLogged'
            /\ result' = FALSE
            /\ entryRelayIdentity' = entryRelayIdentity
            /\ exitRelayIdentity' = exitRelayIdentity
            /\ entries' = entries
            /\ exits' = exits
            /\ auths' = auths
            /\ freed' = freed
            /\ NumProbesRemaining' = NumProbesRemaining]_vars

\* C16 witness: a slice of two targets and no authority was asked for a pair;
\* the call logged the error and returned FALSE, both outputs are still unset
\* and both counts still 0.
C16_Witness ==
    /\ lastOp = "chooseRelayPair"
    /\ errorLogged
    /\ result = FALSE
    /\ auths = EmptyTable
    /\ torflowslice_getLength = 2
    /\ NumProbesRemaining = 2 * numProbesPerRelay
    /\ entryRelayIdentity = NULL
    /\ exitRelayIdentity = NULL

\* this step is a reportMeasurements call (its arguments are in call')
IsReportMeasurements == pc = "idle" /\ call'.op = "reportMeasurements"

\* the fields of a stats entry that a report sets
ReportedFields(e) ==
    <<e.identity, e.nickname, e.descriptorBandwidth, e.advertisedBandwidth,
      e.meanBandwidth, e.filteredBandwidth>>

\* C17: reportMeasurements(list, sliceSize, k) leaves, for each relay at a list
\* position sliceSize*k .. sliceSize*k + sliceSize - 1 with enough
\* measurements, exactly one stats entry of that identity, holding the relay's
\* measured values; it creates no other entry, keeps the reported fields of
\* every other entry, and performs exactly one publish.
C17_ReportWindow ==
    [][IsReportMeasurements
         => LET list == call'.relays
                lo == call'.sliceSize * call'.currSlice
                hi == lo + call'.sliceSize - 1
                qualifying == {i \in DOMAIN list :
                                  i - 1 >= lo /\ i - 1 <= hi /\ list[i].enough}
                ids == {list[i].relay.identity : i \in qualifying}
            IN /\ \A i \in qualifying :
                     LET nodes == NodesOf(relayStats', list[i].relay.identity)
                     IN /\ Cardinality(nodes) = 1
                        /\ \A k \in nodes :
                              ReportedFields(relayStats'[k])
                                = <<list[i].relay.identity, list[i].relay.nickname,
                                    list[i].relay.descriptorBandwidth,
                                    list[i].relay.advertisedBandwidth,
                                    list[i].mean, list[i].filtered>>
               /\ \A k \in DOMAIN relayStats' : k[1] \in ids \/ k \in DOMAIN relayStats
               /\ \A k \in DOMAIN relayStats :
                     k[1] \notin ids
                     => /\ k \in DOMAIN relayStats'
                        /\ ReportedFields(relayStats'[k]) = ReportedFields(relayStats[k])
               /\ version' = version + 1
               /\ newFilename' = VersionedFile(version)]_vars

\* C18: getLength is the number of entry and exit relays addRelay inserted
\* (authorities and dropped relays excluded), and no chooseRelayPair call
\* changes it.
C18_LengthIsTargetCount ==
    [][/\ torflowslice_getLength' = Cardinality(Targets')
       /\ (nCalls' = nCalls + 1) => (torflowslice_getLength' = torflowslice_getLength)]_vars

\* C19: no entry or exit relay is returned as the target more than
\* numProbesPerRelay times.
C19_NoOverProbing ==
    \A id \in RelayIDs : selected[id] <= numProbesPerRelay

\* C20: a reportInitial call never changes the mean or filtered bandwidth of
\* an entry of a relay whose statistics a reportMeasurements call has written,
\* and no step removes an entry from the stats table.
C20_MeasuredNeverReseeded ==
    [][/\ DOMAIN relayStats \subseteq DOMAIN relayStats'
       /\ IsReportInitial
            => \A k \in DOMAIN relayStats :
                  k[1] \in measuredIDs
                  => /\ relayStats'[k].meanBandwidth = relayStats[k].meanBandwidth
                     /\ relayStats'[k].filteredBandwidth = relayStats[k].filteredBandwidth]_vars
=============================================================================
